---- MODULE Spec2Model ----
(***************************************************************************)
(* Model of pytorch_pretrained_vit/transformer.py: the block stacks of     *)
(* Transformer, AnomalyTransformer and OlderAnomalyTransformer, and the    *)
(* shape helper split_last.                                                *)
(*                                                                         *)
(* Tensors are symbolic.  A tensor is the forward input it was computed    *)
(* from together with the sequence of Block applications made to it, so    *)
(* two tensors are equal exactly when the same blocks were applied, in the *)
(* same order and with the same mask, to the same input.  Every Block owns *)
(* its own parameters, hence blocks[i], cloned_blocks[i] and cloned_block  *)
(* are distinct functions.  The attention-score cache a Block writes is    *)
(* never read by any forward and is left out.                              *)
(***************************************************************************)
EXTENDS Integers, Sequences, FiniteSets, TLC

VARIABLES
    call,                   \* the function being executed
    pc,                     \* "idle", "loop", "return", "done" or "error"
    err,                    \* the exception that ended the call
    x,                      \* local x of forward
    _x,                     \* local _x of forward
    i,                      \* loop index of forward
    mask,                   \* argument mask
    output_layer_ind,       \* argument output_layer_ind
    clone_arg,              \* argument clone_block_ind as passed
    clone_block_ind,        \* local clone_block_ind after lines 134-141
    origin_block_outputs,   \* local; the empty sequence while unbound
    cloned_block_outputs,   \* local; the empty sequence while unbound
    result,                 \* the value returned
    log,                    \* history: the Block calls made by this call
    prev,                   \* history: the previous finished forward call
    ctor_arg,               \* OlderAnomalyTransformer(..., clone_block_ind)
    self_clone_block_ind,   \* OlderAnomalyTransformer.clone_block_ind
    sl_size,                \* split_last: x.size()
    sl_shape,               \* split_last: argument shape
    view                    \* split_last: size of the returned view

vars == <<call, pc, err, x, _x, i, mask, output_layer_ind, clone_arg,
          clone_block_ind, origin_block_outputs, cloned_block_outputs,
          result, log, prev, ctor_arg, self_clone_block_ind,
          sl_size, sl_shape, view>>

----------------------------------------------------------------------------
(* Bounds *)

NumLayers == 2          \* num_layers of every constructed stack
MaxListLen == 2         \* longest clone_block_ind list passed to forward
MaxShapeLen == 2        \* longest shape passed to split_last
MaxDim == 4             \* largest trailing dimension passed to split_last

Inputs == {"x0"}
Masks == {"None", "m"}
LayerArgs == (0 - 2)..(NumLayers + 1)
ListVals == (0 - 1)..NumLayers
ShapeVals == {0 - 1, 1, 2, 3}

SeqsUpTo(S, n) == UNION {[1..k -> S] : k \in 0..n}

----------------------------------------------------------------------------
(* Tensors and blocks *)

Leaf(t) == [src |-> t, ops |-> <<>>]

Block(blk, idx, t, m) ==
    [t EXCEPT !.ops = Append(@, [blk |-> blk, idx |-> idx, mask |-> m])]

Exec(blk, idx, t, m) ==
    [blk |-> blk, idx |-> idx, inp |-> t, out |-> Block(blk, idx, t, m)]

In(k, l) == \E j \in 1..Len(l) : l[j] = k

Range(n) == [k \in 1..n |-> k - 1]

NoResult == [a |-> <<>>, b |-> <<>>]

NoRun == [call |-> "none", src |-> "x0", mask |-> "None", oli |-> 0 - 1,
          log |-> <<>>, origin |-> <<>>, cloned |-> <<>>]

Finished == pc \in {"done", "error"}

Record ==
    IF Finished /\ call \in {"Transformer", "Anomaly", "Older"}
    THEN [call |-> call, src |-> x.src, mask |-> mask,
          oli |-> output_layer_ind, log |-> log,
          origin |-> origin_block_outputs, cloned |-> cloned_block_outputs]
    ELSE prev

CanCall == pc \in {"idle", "done", "error"}

Enter(name, t, m) ==
    /\ CanCall
    /\ call' = name
    /\ x' = Leaf(t)
    /\ _x' = Leaf(t)
    /\ mask' = m
    /\ i' = 0
    /\ pc' = IF NumLayers > 0 THEN "loop" ELSE "return"
    /\ err' = "none"
    /\ result' = NoResult
    /\ log' = <<>>
    /\ origin_block_outputs' = <<>>
    /\ cloned_block_outputs' = <<>>
    /\ prev' = Record
    /\ UNCHANGED <<ctor_arg, self_clone_block_ind, sl_size, sl_shape, view>>

----------------------------------------------------------------------------
(* Transformer.forward *)

\* Variant: the early exit tested one layer late.
BreakLate(k, ind) == k = ind + 1

BreakAt(k, ind) == k = ind

CallTransformer(t, m, k) ==
    /\ Enter("Transformer", t, m)
    /\ output_layer_ind' = k
    /\ UNCHANGED <<clone_arg, clone_block_ind>>

TransformerLayer ==
    /\ call = "Transformer"
    /\ pc = "loop"
    /\ x' = Block("blocks", i, x, mask)
    /\ log' = Append(log, Exec("blocks", i, x, mask))
    /\ IF BreakAt(i, output_layer_ind)
       THEN /\ pc' = "return"
            /\ i' = i
       ELSE /\ i' = i + 1
            /\ pc' = IF i + 1 < NumLayers THEN "loop" ELSE "return"
    /\ UNCHANGED <<call, err, _x, mask, output_layer_ind, clone_arg,
                   clone_block_ind, origin_block_outputs,
                   cloned_block_outputs, result, prev, ctor_arg,
                   self_clone_block_ind, sl_size, sl_shape, view>>

TransformerReturn ==
    /\ call = "Transformer"
    /\ pc = "return"
    /\ result' = [a |-> <<x>>, b |-> <<>>]
    /\ pc' = "done"
    /\ UNCHANGED <<call, err, x, _x, i, mask, output_layer_ind, clone_arg,
                   clone_block_ind, origin_block_outputs,
                   cloned_block_outputs, log, prev, ctor_arg,
                   self_clone_block_ind, sl_size, sl_shape, view>>

----------------------------------------------------------------------------
(* AnomalyTransformer.forward *)

NoneArg == [kind |-> "None", n |-> 0, l |-> <<>>]
IntArg(n) == [kind |-> "int", n |-> n, l |-> <<>>]
ListArg(l) == [kind |-> "list", n |-> 0, l |-> l]

CloneArgs ==
    {NoneArg} \cup {IntArg(n) : n \in LayerArgs}
              \cup {ListArg(l) : l \in SeqsUpTo(ListVals, MaxListLen)}

\* Variant: None selects one layer fewer than the stack holds.
NormalizeShort(arg) ==
    IF arg.kind = "None" THEN Range(NumLayers - 1)
    ELSE IF arg.kind = "int"
         THEN IF arg.n = 0 - 1 THEN <<NumLayers - 1>> ELSE <<arg.n>>
         ELSE arg.l

NormalizeCloneInd(arg) ==
    IF arg.kind = "None" THEN Range(NumLayers)
    ELSE IF arg.kind = "int"
         THEN IF arg.n = 0 - 1 THEN <<NumLayers - 1>> ELSE <<arg.n>>
         ELSE arg.l

\* Variant: at a selected layer the cloned block's output becomes x.
AdvanceThroughClone(k, t, m) ==
    IF In(k, clone_block_ind) THEN Block("cloned_blocks", k, t, m)
    ELSE Block("blocks", k, t, m)

Advance(k, t, m) == Block("blocks", k, t, m)

Selected(k, l) == In(k, l)

\* Variant: the cloned block is fed the updated x instead of _x.
ClonedInputUpdated(before, after) == after

ClonedInput(before, after) == before

\* Variant: stacking an empty list yields an empty result.
StackLenient(l) == [ok |-> TRUE, val |-> l]

Stack(l) == [ok |-> l # <<>>, val |-> l]

CallAnomaly(t, m, arg) ==
    /\ Enter("Anomaly", t, m)
    /\ clone_arg' = arg
    /\ clone_block_ind' = NormalizeCloneInd(arg)
    /\ UNCHANGED output_layer_ind

AnomalyLayer ==
    /\ call = "Anomaly"
    /\ pc = "loop"
    /\ _x' = x
    /\ x' = Advance(i, x, mask)
    /\ IF Selected(i, clone_block_ind)
       THEN /\ origin_block_outputs' = Append(origin_block_outputs, x')
            /\ cloned_block_outputs' =
                   Append(cloned_block_outputs,
                          Block("cloned_blocks", i, ClonedInput(_x', x'), mask))
            /\ log' = log \o <<[blk |-> "blocks", idx |-> i, inp |-> x, out |-> x'],
                               Exec("cloned_blocks", i, ClonedInput(_x', x'), mask)>>
       ELSE /\ log' = Append(log, [blk |-> "blocks", idx |-> i, inp |-> x, out |-> x'])
            /\ UNCHANGED <<origin_block_outputs, cloned_block_outputs>>
    /\ i' = i + 1
    /\ pc' = IF i + 1 < NumLayers THEN "loop" ELSE "return"
    /\ UNCHANGED <<call, err, mask, output_layer_ind, clone_arg,
                   clone_block_ind, result, prev, ctor_arg,
                   self_clone_block_ind, sl_size, sl_shape, view>>

AnomalyReturn ==
    /\ call = "Anomaly"
    /\ pc = "return"
    /\ IF Stack(origin_block_outputs).ok /\ Stack(cloned_block_outputs).ok
       THEN /\ result' = [a |-> Stack(origin_block_outputs).val,
                          b |-> Stack(cloned_block_outputs).val]
            /\ pc' = "done"
            /\ err' = err
       ELSE /\ pc' = "error"
            /\ err' = "RuntimeError"
            /\ result' = result
    /\ UNCHANGED <<call, x, _x, i, mask, output_layer_ind, clone_arg,
                   clone_block_ind, origin_block_outputs,
                   cloned_block_outputs, log, prev, ctor_arg,
                   self_clone_block_ind, sl_size, sl_shape, view>>

----------------------------------------------------------------------------
(* OlderAnomalyTransformer *)

\* Variant: the constructor keeps -1 as given.
OlderInitRaw(c) == c

OlderInit(c) == IF c = 0 - 1 THEN NumLayers - 1 ELSE c

OlderCloneAt(k, c) == k = c

OlderClonedInput(before, after) == before

\* Variant: the two locals are initialised before the loop.
LocalsPreset(o, c) == TRUE

LocalsBound(o, c) == o # <<>> /\ c # <<>>

CallOlder(t, m, k) ==
    /\ Enter("Older", t, m)
    /\ output_layer_ind' = k
    /\ UNCHANGED <<clone_arg, clone_block_ind>>

OlderLayer ==
    /\ call = "Older"
    /\ pc = "loop"
    /\ _x' = x
    /\ x' = Block("blocks", i, x, mask)
    /\ IF OlderCloneAt(i, self_clone_block_ind)
       THEN /\ origin_block_outputs' = <<x'>>
            /\ cloned_block_outputs' =
                   <<Block("cloned_block", 0, OlderClonedInput(_x', x'), mask)>>
            /\ log' = log \o <<Exec("blocks", i, x, mask),
                               Exec("cloned_block", 0, OlderClonedInput(_x', x'), mask)>>
            /\ pc' = "return"
            /\ i' = i
       ELSE /\ log' = Append(log, Exec("blocks", i, x, mask))
            /\ i' = i + 1
            /\ pc' = IF i + 1 < NumLayers THEN "loop" ELSE "return"
            /\ UNCHANGED <<origin_block_outputs, cloned_block_outputs>>
    /\ UNCHANGED <<call, err, mask, output_layer_ind, clone_arg,
                   clone_block_ind, result, prev, ctor_arg,
                   self_clone_block_ind, sl_size, sl_shape, view>>

OlderReturn ==
    /\ call = "Older"
    /\ pc = "return"
    /\ IF LocalsBound(origin_block_outputs, cloned_block_outputs)
       THEN /\ result' = [a |-> origin_block_outputs, b |-> cloned_block_outputs]
            /\ pc' = "done"
            /\ err' = err
       ELSE /\ pc' = "error"
            /\ err' = "UnboundLocalError"
            /\ result' = result
    /\ UNCHANGED <<call, x, _x, i, mask, output_layer_ind, clone_arg,
                   clone_block_ind, origin_block_outputs,
                   cloned_block_outputs, log, prev, ctor_arg,
                   self_clone_block_ind, sl_size, sl_shape, view>>

----------------------------------------------------------------------------
(* split_last *)

RECURSIVE Prod(_)
Prod(s) == IF s = <<>> THEN 1 ELSE Head(s) * Prod(Tail(s))

RECURSIVE Count(_, _)
Count(s, v) ==
    IF s = <<>> THEN 0
    ELSE (IF Head(s) = v THEN 1 ELSE 0) + Count(Tail(s), v)

Index(s, v) == CHOOSE j \in 1..Len(s) : s[j] = v /\ \A h \in 1..(j - 1) : s[h] # v

Abs(n) == IF n < 0 THEN 0 - n ELSE n

PyInt(a, b) ==
    IF (a >= 0) = (b > 0) THEN Abs(a) \div Abs(b) ELSE 0 - (Abs(a) \div Abs(b))

\* Variant: the product is not negated before the division.
WildcardUnnegated(d, shape) == PyInt(d, Prod(shape))

Wildcard(d, shape) == PyInt(d, 0 - Prod(shape))

Front(s) == SubSeq(s, 1, Len(s) - 1)

Last(s) == s[Len(s)]

View(size, shape) ==
    LET n == Prod(size)
        wild == Count(shape, 0 - 1)
        neg == \E j \in 1..Len(shape) : shape[j] < 0 - 1
        rest == 0 - Prod(shape)
    IN  IF neg \/ wild > 1 THEN [ok |-> FALSE, size |-> <<>>]
        ELSE IF wild = 1
             THEN IF rest # 0 /\ n % rest = 0
                  THEN [ok |-> TRUE,
                        size |-> [shape EXCEPT ![Index(shape, 0 - 1)] = n \div rest]]
                  ELSE [ok |-> FALSE, size |-> <<>>]
             ELSE IF Prod(shape) = n
                  THEN [ok |-> TRUE, size |-> shape]
                  ELSE [ok |-> FALSE, size |-> <<>>]

SplitShape(d, shape) ==
    IF In(0 - 1, shape)
    THEN [shape EXCEPT ![Index(shape, 0 - 1)] = Wildcard(d, shape)]
    ELSE shape

SplitLast(size, shape) ==
    /\ CanCall
    /\ call' = "split_last"
    /\ sl_size' = size
    /\ sl_shape' = shape
    /\ IF Count(shape, 0 - 1) > 1
       THEN /\ pc' = "error"
            /\ err' = "AssertionError"
            /\ view' = <<>>
       ELSE LET v == View(size, Front(size) \o SplitShape(Last(size), shape))
            IN  IF v.ok
                THEN /\ pc' = "done"
                     /\ err' = "none"
                     /\ view' = v.size
                ELSE /\ pc' = "error"
                     /\ err' = "RuntimeError"
                     /\ view' = <<>>
    /\ UNCHANGED <<x, _x, i, mask, output_layer_ind, clone_arg,
                   clone_block_ind, origin_block_outputs,
                   cloned_block_outputs, result, log, prev, ctor_arg,
                   self_clone_block_ind>>

Sizes == {<<d>> : d \in 0..MaxDim} \cup {<<2, d>> : d \in 0..MaxDim}

Shapes == SeqsUpTo(ShapeVals, MaxShapeLen) \ {<<>>}

----------------------------------------------------------------------------
(* Specifications *)

Init ==
    /\ call = "none"
    /\ pc = "idle"
    /\ err = "none"
    /\ x = Leaf("x0")
    /\ _x = Leaf("x0")
    /\ i = 0
    /\ mask = "None"
    /\ output_layer_ind = 0 - 1
    /\ clone_arg = NoneArg
    /\ clone_block_ind = <<>>
    /\ origin_block_outputs = <<>>
    /\ cloned_block_outputs = <<>>
    /\ result = NoResult
    /\ log = <<>>
    /\ prev = NoRun
    /\ ctor_arg = 0 - 1
    /\ self_clone_block_ind = NumLayers - 1
    /\ sl_size = <<0>>
    /\ sl_shape = <<>>
    /\ view = <<>>

NextTransformer ==
    \/ \E t \in Inputs, m \in Masks, k \in LayerArgs : CallTransformer(t, m, k)
    \/ TransformerLayer
    \/ TransformerReturn

SpecTransformer == Init /\ [][NextTransformer]_vars

InitOlder ==
    /\ call = "none"
    /\ pc = "idle"
    /\ err = "none"
    /\ x = Leaf("x0")
    /\ _x = Leaf("x0")
    /\ i = 0
    /\ mask = "None"
    /\ output_layer_ind = 0 - 1
    /\ clone_arg = NoneArg
    /\ clone_block_ind = <<>>
    /\ origin_block_outputs = <<>>
    /\ cloned_block_outputs = <<>>
    /\ result = NoResult
    /\ log = <<>>
    /\ prev = NoRun
    /\ ctor_arg \in LayerArgs
    /\ self_clone_block_ind = OlderInit(ctor_arg)
    /\ sl_size = <<0>>
    /\ sl_shape = <<>>
    /\ view = <<>>

NextAnomaly ==
    \/ \E t \in Inputs, m \in Masks, arg \in CloneArgs : CallAnomaly(t, m, arg)
    \/ AnomalyLayer
    \/ AnomalyReturn

NextOlder ==
    \/ \E t \in Inputs, m \in Masks, k \in LayerArgs : CallOlder(t, m, k)
    \/ OlderLayer
    \/ OlderReturn

NextSplit == \E size \in Sizes, shape \in Shapes : SplitLast(size, shape)

SpecAnomaly == Init /\ [][NextAnomaly]_vars

SpecOlder == InitOlder /\ [][NextOlder]_vars

SpecSplit == Init /\ [][NextSplit]_vars

----------------------------------------------------------------------------
(* Properties *)

RECURSIVE Chain(_, _, _)
\* The forward input after original blocks 0..k-1, applied in order.
Chain(t, m, k) ==
    IF k = 0 THEN Leaf(t) ELSE Block("blocks", k - 1, Chain(t, m, k - 1), m)

Layers == 0..(NumLayers - 1)

\* The layers a clone_block_ind argument names.
Named(arg) ==
    IF arg.kind = "None" THEN Layers
    ELSE IF arg.kind = "int"
         THEN (IF arg.n = 0 - 1 THEN {NumLayers - 1} ELSE {arg.n}) \cap Layers
         ELSE {arg.l[j] : j \in 1..Len(arg.l)} \cap Layers

InOrder(S) ==
    CHOOSE s \in [1..Cardinality(S) -> S] :
        \A a, b \in 1..Cardinality(S) : a < b => s[a] < s[b]

OnlyOriginal(t) == \A j \in 1..Len(t.ops) : t.ops[j].blk = "blocks"

IsOrig(e) == e.blk = "blocks"

OrigLog(lg) == SelectSeq(lg, IsOrig)

ClonedLayers(lg) ==
    {lg[j].idx : j \in {h \in 1..Len(lg) : lg[h].blk = "cloned_blocks"}}

\* Position of layer k in the output collections of a run with log lg.
Slot(lg, k) ==
    Cardinality({j \in 1..Len(lg) :
                    lg[j].blk = "cloned_blocks" /\ lg[j].idx <= k})

\* The log of original blocks 0..n-1 run in order on the forward input.
FullOrigLog(t, m, n) ==
    [j \in 1..n |-> Exec("blocks", j - 1, Chain(t, m, j - 1), m)]

\* C1: every cloned block of AnomalyTransformer.forward runs at a selected
\* layer i on the value blocks[i] received there (original blocks 0..i-1
\* applied to the forward input), which holds no cloned block's output and
\* is not the output of blocks[i].
C1_ClonedInputIsPreBlock ==
    call = "Anomaly" =>
        \A j \in 1..Len(log) :
            log[j].blk = "cloned_blocks" =>
                /\ In(log[j].idx, clone_block_ind)
                /\ j > 1
                /\ log[j - 1].blk = "blocks"
                /\ log[j - 1].idx = log[j].idx
                /\ log[j].inp = log[j - 1].inp
                /\ log[j].inp = Chain(x.src, mask, log[j].idx)
                /\ OnlyOriginal(log[j].inp)
                /\ log[j].inp # log[j - 1].out

C1_Witness ==
    /\ call = "Anomaly"
    /\ pc = "done"
    /\ Len(cloned_block_outputs) >= 2
    /\ \E j \in 1..Len(log) : log[j].blk = "cloned_blocks" /\ log[j].idx >= 1

\* C2: two AnomalyTransformer.forward runs on the same input and mask step
\* x through the same values at every layer whatever layers each selects,
\* the original output they record for a layer both select is the same,
\* and x never holds a cloned block's output.
C2_OriginalPathIndependent ==
    (call = "Anomaly" /\ prev.call = "Anomaly"
        /\ prev.src = x.src /\ prev.mask = mask) =>
        /\ OnlyOriginal(x)
        /\ \A j \in 1..Len(OrigLog(log)) :
               /\ j <= Len(OrigLog(prev.log))
               /\ OrigLog(log)[j].inp = OrigLog(prev.log)[j].inp
               /\ OrigLog(log)[j].out = OrigLog(prev.log)[j].out
        /\ \A k \in ClonedLayers(log) \cap ClonedLayers(prev.log) :
               origin_block_outputs[Slot(log, k)] = prev.origin[Slot(prev.log, k)]

C2_Witness ==
    /\ call = "Anomaly"
    /\ pc = "done"
    /\ prev.call = "Anomaly"
    /\ prev.src = x.src
    /\ prev.mask = mask
    /\ ClonedLayers(log) # ClonedLayers(prev.log)
    /\ NumLayers - 1 \in ClonedLayers(log) \cap ClonedLayers(prev.log)
    /\ 0 \in ClonedLayers(prev.log) \ ClonedLayers(log)

\* C3: what AnomalyTransformer.forward returns is two collections of one
\* entry per distinct named layer in [0, N), in increasing layer order,
\* the j-th entries being the outputs of blocks[i] and cloned_blocks[i] for
\* the j-th such layer i.
C3_PairedOutputsPerSelectedLayer ==
    (call = "Anomaly" /\ pc = "done") =>
        LET S == Named(clone_arg)
            ord == InOrder(S)
        IN  /\ Len(result.a) = Cardinality(S)
            /\ Len(result.b) = Cardinality(S)
            /\ \A j \in 1..Cardinality(S) :
                   /\ result.a[j] = Chain(x.src, mask, ord[j] + 1)
                   /\ result.b[j] =
                          Block("cloned_blocks", ord[j],
                                Chain(x.src, mask, ord[j]), mask)

C3_Witness ==
    /\ call = "Anomaly"
    /\ pc = "done"
    /\ clone_arg.kind = "list"
    /\ Len(clone_arg.l) = 2
    /\ clone_arg.l[1] > clone_arg.l[2]
    /\ Len(result.a) = 2
    /\ Len(result.b) = 2

\* C4 (as claimed): whenever -1 is passed, bare or inside a list, the call
\* returns and the outputs of layer N-1 are among those collected.
C4_MinusOneSelectsLastLayer ==
    (call = "Anomaly" /\ Finished
        /\ \/ (clone_arg.kind = "int" /\ clone_arg.n = 0 - 1)
           \/ (clone_arg.kind = "list" /\ In(0 - 1, clone_arg.l))) =>
        /\ pc = "done"
        /\ In(Chain(x.src, mask, NumLayers), result.a)
        /\ In(Block("cloned_blocks", NumLayers - 1,
                    Chain(x.src, mask, NumLayers - 1), mask), result.b)

OutOfRange(arg) ==
    \/ arg.kind = "int" /\ ~(arg.n \in (0 - 1)..(NumLayers - 1))
    \/ arg.kind = "list" /\ \E j \in 1..Len(arg.l) :
                                ~(arg.l[j] \in (0 - 1)..(NumLayers - 1))

\* C5 (as claimed): a forward call given an index outside [-1, N) never
\* returns a result.
C5_OutOfRangeIndexRejected ==
    (call = "Anomaly" /\ OutOfRange(clone_arg)) => pc # "done"

\* C6: Transformer.forward runs blocks 0, 1, 2, ... in order, k+1 of them
\* when output_layer_ind = k lies in [0, N) and N of them otherwise; for a
\* valid k the result is the value a full run on the same input held right
\* after block k, and no block beyond k runs.
C6_EarlyExit ==
    (call = "Transformer" /\ pc = "done") =>
        LET k == output_layer_ind
            n == IF k \in Layers THEN k + 1 ELSE NumLayers
        IN  /\ log = FullOrigLog(x.src, mask, n)
            /\ result.a = <<Chain(x.src, mask, n)>>
            /\ (k \in Layers => \A j \in 1..Len(log) : log[j].idx <= k)
            /\ (k \in Layers /\ prev.call = "Transformer"
                  /\ prev.oli = 0 - 1 /\ prev.src = x.src /\ prev.mask = mask) =>
                   /\ Len(prev.log) = NumLayers
                   /\ result.a = <<prev.log[k + 1].out>>

C6_Witness ==
    /\ call = "Transformer"
    /\ pc = "done"
    /\ output_layer_ind = 0
    /\ NumLayers > 1
    /\ Len(log) = 1
    /\ prev.call = "Transformer"
    /\ prev.oli = 0 - 1
    /\ prev.src = x.src
    /\ prev.mask = mask
    /\ Len(prev.log) = NumLayers

\* C7: OlderAnomalyTransformer built with c in [-1, N) runs blocks 0..c' in
\* order (c' = N-1 for c = -1, else c), then the cloned block once on the
\* input blocks[c'] received, runs nothing after it, and returns the pair
\* (output of blocks[c'], output of the cloned block).
C7_OlderRunsToCloneLayer ==
    (call = "Older" /\ Finished /\ ctor_arg \in (0 - 1)..(NumLayers - 1)) =>
        LET c == IF ctor_arg = 0 - 1 THEN NumLayers - 1 ELSE ctor_arg
            before == Chain(x.src, mask, c)
        IN  /\ pc = "done"
            /\ log = FullOrigLog(x.src, mask, c + 1)
                       \o <<Exec("cloned_block", 0, before, mask)>>
            /\ result = [a |-> <<Chain(x.src, mask, c + 1)>>,
                         b |-> <<Block("cloned_block", 0, before, mask)>>]

C7_Witness ==
    /\ call = "Older"
    /\ pc = "done"
    /\ ctor_arg = 0 - 1
    /\ Len(log) = NumLayers + 1
    /\ mask = "m"

RECURSIVE OtherProd(_)
\* The product of the entries of a shape other than -1.
OtherProd(s) ==
    IF s = <<>> THEN 1
    ELSE (IF Head(s) = 0 - 1 THEN 1 ELSE Head(s)) * OtherProd(Tail(s))

Filled(s, v) == [j \in 1..Len(s) |-> IF s[j] = 0 - 1 THEN v ELSE s[j]]

\* C8: split_last fails on a shape with more than one -1; with exactly one
\* -1 and P the product of the other entries it returns the leading
\* dimensions followed by shape with -1 replaced by D / P when P divides D,
\* and fails when P does not divide D.
C8_SplitLast ==
    call = "split_last" =>
        LET d == Last(sl_size)
            p == OtherProd(sl_shape)
            wild == Count(sl_shape, 0 - 1)
        IN  /\ wild > 1 => pc = "error"
            /\ (wild = 1 /\ d % p = 0) =>
                   /\ pc = "done"
                   /\ view = Front(sl_size) \o Filled(sl_shape, d \div p)
            /\ (wild = 1 /\ d % p # 0) => pc = "error"

C8_Witness ==
    /\ call = "split_last"
    /\ pc = "done"
    /\ Count(sl_shape, 0 - 1) = 1
    /\ OtherProd(sl_shape) = 2
    /\ Last(sl_size) = 4
    /\ Len(sl_size) = 2
    /\ view = <<2, 2, 2>>

\* C9 (as claimed): with a clone index above num_layers - 1 the legacy
\* forward runs all N original blocks and completes without error.
C9_OlderAboveRangeCompletes ==
    (call = "Older" /\ Finished /\ ctor_arg > NumLayers - 1) =>
        /\ log = FullOrigLog(x.src, mask, NumLayers)
        /\ pc = "done"

\* C9 (amended): with a clone index above num_layers - 1 the legacy forward
\* runs all N original blocks, runs no cloned block, and then ends in an
\* UnboundLocalError at its return statement instead of returning.
C9_OlderAboveRangeFailsAtReturn ==
    (call = "Older" /\ Finished /\ ctor_arg > NumLayers - 1) =>
        /\ log = FullOrigLog(x.src, mask, NumLayers)
        /\ pc = "error"
        /\ err = "UnboundLocalError"
        /\ result = NoResult

C9_Witness ==
    /\ call = "Older"
    /\ pc = "error"
    /\ ctor_arg = NumLayers
    /\ Len(log) = NumLayers

\* C10: AnomalyTransformer.forward returns only when some layer is named;
\* when none is, all N original blocks and no cloned block have run, both
\* collections are empty and the call ends in an error at the stacking
\* step.
C10_NothingSelectedFailsAtStack ==
    (call = "Anomaly" /\ Finished) =>
        /\ pc = "done" => Named(clone_arg) # {}
        /\ Named(clone_arg) = {} =>
               /\ pc = "error"
               /\ err = "RuntimeError"
               /\ log = FullOrigLog(x.src, mask, NumLayers)
               /\ origin_block_outputs = <<>>
               /\ cloned_block_outputs = <<>>
               /\ result = NoResult

C10_Witness ==
    /\ call = "Anomaly"
    /\ pc = "error"
    /\ clone_arg.kind = "list"
    /\ clone_arg.l = <<NumLayers, 0 - 1>>
    /\ Len(log) = NumLayers

====
